---- MODULE Spec2Model ----
(***************************************************************************)
(* Model of dags/etl.py: the extract -> transform -> load pipeline that    *)
(* normalises schema.org JobPosting payloads into six SQLite tables.       *)
(*                                                                         *)
(* Strings are sequences of one-character strings, so that the regular     *)
(* expression of clean_description can be computed character by character. *)
(* A JSON value is a record tagged by t: "str", "num", "null" or "obj";     *)
(* a raised Python exception is a record tagged t = "raise".                *)
(***************************************************************************)
EXTENDS Integers, Sequences, FiniteSets, TLC

VARIABLES
    pc,                 \* which task of the pipeline is running
    run,                \* number of pipeline runs started
    context_data,       \* extract(): the list of payloads of this run
    t_index,            \* transform(): loop index (0-based, as enumerate)
    transformed_data,   \* transform(): the list built so far
    staging,            \* staging/transformed/job_{index}.json, by index
    l_index,            \* load(): loop index (0-based, as enumerate)
    l_stmt,             \* load(): next statement of the loop body (1..6)
    connection,         \* load(): "none", "open" or "closed"
    db,                 \* the committed content of the SQLite file
    txn,                \* the content seen by load's open transaction
    last_insert_rowid,  \* SQLite's per-connection last_insert_rowid()
    log,                \* the INSERTs issued in this run, in order
    commits,            \* number of commits of this run
    fn_in,              \* argument of a function applied on its own
    fn_out              \* its result

vars == <<pc, run, context_data, t_index, transformed_data, staging, l_index,
          l_stmt, connection, db, txn, last_insert_rowid, log, commits,
          fn_in, fn_out>>

pipelineVars == <<pc, run, context_data, t_index, transformed_data, staging,
                  l_index, l_stmt, connection, db, txn, last_insert_rowid,
                  log, commits>>

----------------------------------------------------------------------------
(* Bounds of the model. *)

MaxBatch == 2      \* longest list of payloads of one run
MaxRuns == 3       \* pipeline runs on the same database
MaxLen == 5        \* longest description given to clean_description alone

----------------------------------------------------------------------------
(* JSON values and Python dictionaries. *)

Str(s) == [t |-> "str", v |-> s]
Num(s) == [t |-> "num", v |-> s]
Null == [t |-> "null"]
Obj(f) == [t |-> "obj", o |-> f]
Raise(e) == [t |-> "raise", e |-> e]

EmptyStr == Str(<<>>)
EmptyDict == Obj(<<>>)

IsRaise(v) == v.t = "raise"

\* dict.get(key, default): the value under key, the default when the key is
\* absent, AttributeError when the receiver is not a dict.  An exception
\* raised while evaluating the receiver propagates.
Get(d, key, default) ==
    IF IsRaise(d) THEN d
    ELSE IF d.t # "obj" THEN Raise("AttributeError")
    ELSE IF key \in DOMAIN d.o THEN d.o[key]
    ELSE default

----------------------------------------------------------------------------
(* clean_description: re.sub(r'<.*?>', '', description). *)

Drop(s, n) == SubSeq(s, n + 1, Len(s))

\* '.' matches any character except a newline.
Dot(c) == c # "\n"

\* Length of the shortest match of <.*?> at the head of s, 0 when there is
\* none: the first '>' after the '<', if no newline comes before it.
RECURSIVE LazyClose(_, _)
LazyClose(s, j) ==
    IF j > Len(s) THEN 0
    ELSE IF s[j] = ">" THEN j
    ELSE IF Dot(s[j]) THEN LazyClose(s, j + 1)
    ELSE 0

\* The pattern <[^<>]*>: a tag holds no angle bracket.
RECURSIVE PlainClose(_, _)
PlainClose(s, j) ==
    IF j > Len(s) THEN 0
    ELSE IF s[j] = ">" THEN j
    ELSE IF s[j] # "<" THEN PlainClose(s, j + 1)
    ELSE 0

MatchTagPlain(s) == IF s # <<>> /\ s[1] = "<" THEN PlainClose(s, 2) ELSE 0

MatchTag(s) == IF s # <<>> /\ s[1] = "<" THEN LazyClose(s, 2) ELSE 0

\* re.sub: scan left to right, replace every non-overlapping match by ''.
RECURSIVE re_sub(_)
re_sub(s) ==
    IF s = <<>> THEN <<>>
    ELSE IF MatchTag(s) > 0 THEN re_sub(Drop(s, MatchTag(s)))
    ELSE <<s[1]>> \o re_sub(Drop(s, 1))

\* re.sub raises TypeError for an argument that is not a string.
clean_description(description) ==
    IF IsRaise(description) THEN description
    ELSE IF description.t # "str" THEN Raise("TypeError")
    ELSE Str(re_sub(description.v))

----------------------------------------------------------------------------
(* json.loads over a token sequence.  A token is a structural character, a  *)
(* key (a string literal before ':'), a string, a number, null, or a bare   *)
(* word, which JSON does not have.                                           *)

Punct(c) == [k |-> c]
Key(name) == [k |-> "key", name |-> name]
StrTok(s) == [k |-> "str", s |-> s]
NumTok(s) == [k |-> "num", s |-> s]
NullTok == [k |-> "null"]
Word(s) == [k |-> "word", s |-> s]

NoParse == [ok |-> FALSE]
Parsed(val, next) == [ok |-> TRUE, val |-> val, next |-> next]

KindAt(toks, i) == IF i <= Len(toks) THEN toks[i].k ELSE "eof"

RECURSIVE ParseValue(_, _)
RECURSIVE ParseMembers(_, _, _)

\* value := string | number | null | '{' '}' | '{' members '}'
ParseValue(toks, i) ==
    CASE KindAt(toks, i) = "str" -> Parsed(Str(toks[i].s), i + 1)
      [] KindAt(toks, i) = "num" -> Parsed(Num(toks[i].s), i + 1)
      [] KindAt(toks, i) = "null" -> Parsed(Null, i + 1)
      [] KindAt(toks, i) = "{" ->
            IF KindAt(toks, i + 1) = "}" THEN Parsed(EmptyDict, i + 2)
            ELSE ParseMembers(toks, i + 1, <<>>)
      [] OTHER -> NoParse

\* members := key ':' value (',' key ':' value)* '}' ; a repeated key keeps
\* its last value.
ParseMembers(toks, i, acc) ==
    IF KindAt(toks, i) # "key" \/ KindAt(toks, i + 1) # ":" THEN NoParse
    ELSE LET r == ParseValue(toks, i + 2) IN
         IF ~r.ok THEN NoParse
         ELSE LET acc2 == (toks[i].name :> r.val) @@ acc IN
              CASE KindAt(toks, r.next) = "," -> ParseMembers(toks, r.next + 1, acc2)
                [] KindAt(toks, r.next) = "}" -> Parsed(Obj(acc2), r.next + 1)
                [] OTHER -> NoParse

\* A parser that answers {} for a text it cannot read.
json_loads_lenient(data) ==
    LET r == ParseValue(data, 1) IN
    IF r.ok /\ r.next = Len(data) + 1 THEN r.val ELSE EmptyDict

\* json.loads(data): the value when the whole text is one JSON value,
\* JSONDecodeError otherwise.
json_loads(data) ==
    LET r == ParseValue(data, 1) IN
    IF r.ok /\ r.next = Len(data) + 1 THEN r.val ELSE Raise("JSONDecodeError")

----------------------------------------------------------------------------
(* transform: the mapping of one parsed posting to its six sub-records.     *)

Leaf(sub, field, path) == [sub |-> sub, field |-> field, path |-> path]

\* The leaf fields in the order the dict literal evaluates them, each with
\* the keys its chain of .get() calls looks up.
Leaves == <<
    Leaf("job", "title", <<"title">>),
    Leaf("job", "industry", <<"industry">>),
    Leaf("job", "description", <<"description">>),
    Leaf("job", "employment_type", <<"employmentType">>),
    Leaf("job", "date_posted", <<"datePosted">>),
    Leaf("company", "name", <<"hiringOrganization", "name">>),
    Leaf("company", "link", <<"hiringOrganization", "sameAs">>),
    Leaf("education", "required_credential",
         <<"educationRequirements", "credentialCategory">>),
    Leaf("experience", "months_of_experience",
         <<"experienceRequirements", "monthsOfExperience">>),
    Leaf("experience", "seniority_level",
         <<"experienceRequirements", "seniority_level">>),
    Leaf("salary", "currency", <<"salary", "currency">>),
    Leaf("salary", "min_value", <<"salary", "min_value">>),
    Leaf("salary", "max_value", <<"salary", "max_value">>),
    Leaf("salary", "unit", <<"salary", "unit">>),
    Leaf("location", "country", <<"jobLocation", "address", "addressCountry">>),
    Leaf("location", "locality", <<"jobLocation", "address", "addressLocality">>),
    Leaf("location", "region", <<"jobLocation", "address", "addressRegion">>),
    Leaf("location", "postal_code", <<"jobLocation", "address", "postalCode">>),
    Leaf("location", "street_address", <<"jobLocation", "address", "streetAddress">>),
    Leaf("location", "latitude", <<"jobLocation", "latitude">>),
    Leaf("location", "longitude", <<"jobLocation", "longitude">>) >>

LeafIds == 1..Len(Leaves)

SubRecords == {"job", "company", "education", "experience", "salary", "location"}

FieldsOf(sub) == {Leaves[k].field : k \in {j \in LeafIds : Leaves[j].sub = sub}}

LeafId(sub, field) ==
    CHOOSE k \in LeafIds : Leaves[k].sub = sub /\ Leaves[k].field = field

\* .get(key) without a default answers None for an absent key.
NestedDefaultNone == Null

\* The default of a .get() on the way to the leaf.
NestedDefault == EmptyDict

\* job_data.get(k1, {}).get(k2, {}) ... .get(kn, "")
RECURSIVE Lookup(_, _)
Lookup(d, path) ==
    IF Len(path) = 1 THEN Get(d, path[1], EmptyStr)
    ELSE Lookup(Get(d, path[1], NestedDefault), Tail(path))

\* The expression of one leaf: description goes through clean_description.
LeafValue(job_data, k) ==
    IF Leaves[k].field = "description"
    THEN clean_description(Lookup(job_data, Leaves[k].path))
    ELSE Lookup(job_data, Leaves[k].path)

Min(S) == CHOOSE x \in S : \A y \in S : x <= y

\* The dict literal transformed_item: its expressions are evaluated in
\* order and the first exception, if any, leaves the literal.
transform_item(job_data) ==
    LET val == [k \in LeafIds |-> LeafValue(job_data, k)]
        bad == {k \in LeafIds : IsRaise(val[k])}
    IN  IF bad # {}
        THEN [t |-> "raise", e |-> val[Min(bad)].e, at |-> Min(bad)]
        ELSE [t |-> "item",
              rec |-> [sub \in SubRecords |->
                          [f \in FieldsOf(sub) |-> val[LeafId(sub, f)]]]]

\* transformed_data.insert(0, transformed_item)
insert_first(list, item) == <<item>> \o list

\* transformed_data.append(transformed_item)
append(list, item) == Append(list, item)

\* save_transformed_data(transformed_item, index): one file per index,
\* overwritten when the index is written again.
save_transformed_data(files, transformed_item, index) ==
    (index :> transformed_item) @@ files

----------------------------------------------------------------------------
(* The SQLite store of TABLES_CREATION_QUERY and the statements of load.    *)

Tables == {"job", "company", "education", "experience", "salary", "location"}

\* CREATE TABLE IF NOT EXISTS on a new database file: six empty tables, and
\* no entry yet in sqlite_sequence.
EmptyStore == [rows |-> [tb \in Tables |-> {}], seq |-> [tb \in Tables |-> 0]]

\* The statements with the job INSERT moved behind its dependents.
InsertOrderJobLast == <<"company", "education", "experience", "salary", "location", "job">>

\* The cursor.execute calls of the loop body, in the order of the code.
InsertOrder == <<"job", "company", "education", "experience", "salary", "location">>

MaxOf(S) == IF S = {} THEN 0 ELSE CHOOSE x \in S : \A y \in S : y <= x

\* id INTEGER PRIMARY KEY AUTOINCREMENT: one more than the largest rowid
\* the table has ever held.
NextRowid(store, tb) ==
    LET held == MaxOf({r.id : r \in store.rows[tb]})
    IN  (IF store.seq[tb] > held THEN store.seq[tb] ELSE held) + 1

\* A job_id taken from the position of the record in the list.
JobIdFromIndex(rowid, index) == index

\* The job_id of a dependent row: VALUES (last_insert_rowid(), ...), the
\* rowid of the latest successful INSERT on the connection.  The loop index
\* takes no part in it.
JobIdValue(rowid, index) == rowid

\* sqlite3 binds None, numbers and strings; a dict parameter is refused.
Bindable(params) == \A f \in DOMAIN params : params[f].t \in {"str", "num", "null"}

\* The store after one INSERT of the sub-record params into tb.
Insert(store, tb, params, rowid, r, index) ==
    LET id == NextRowid(store, tb)
        row == [id |-> id,
                job_id |-> IF tb = "job" THEN 0 ELSE JobIdValue(rowid, index),
                data |-> params, run |-> r, index |-> index]
    IN  [rows |-> [store.rows EXCEPT ![tb] = @ \cup {row}],
         seq |-> [store.seq EXCEPT ![tb] = id]]

\* A connection in autocommit mode: every statement is committed at once.
AfterExecuteAutocommit(committed, working) == working

\* A handler that commits what the transaction holds when load fails.
AfterErrorCommit(committed, working) == working

\* connection.commit() indented into the loop body: the loop is left after
\* its first iteration.
LoopDoneAfterFirst(index, n) == index = n \/ index = 1

\* cursor.execute does not commit: the INSERT stays in the transaction that
\* the connection opened implicitly, and the file keeps its content.
AfterExecute(committed, working) == committed

\* An exception leaves load before connection.commit(): the transaction is
\* never committed and the file keeps its content.
AfterError(committed, working) == committed

\* The for loop has ended when the index has passed the last record.
LoopDone(index, n) == index = n

----------------------------------------------------------------------------
(* The payloads of the context column that the runs draw from. *)

LBrace == Punct("{")
RBrace == Punct("}")
Colon == Punct(":")
Comma == Punct(",")

\* not json
NotJson == <<Word(<<"n", "o", "t">>), Word(<<"j", "s", "o", "n">>)>>

\* {"title": "DE", "description": "<b>S</b>e",
\*  "hiringOrganization": {"name": "A", "sameAs": "a"},
\*  "salary": {"currency": "USD", "min_value": 9}}
AcmePosting == <<
    LBrace, Key("title"), Colon, StrTok(<<"D", "E">>), Comma,
    Key("description"), Colon, StrTok(<<"<", "b", ">", "S", "<", "/", "b", ">", "e">>), Comma,
    Key("hiringOrganization"), Colon,
        LBrace, Key("name"), Colon, StrTok(<<"A">>), Comma,
                Key("sameAs"), Colon, StrTok(<<"a">>), RBrace, Comma,
    Key("salary"), Colon,
        LBrace, Key("currency"), Colon, StrTok(<<"U", "S", "D">>), Comma,
                Key("min_value"), Colon, NumTok(<<"9">>), RBrace,
    RBrace >>

\* {"title": "T", "hiringOrganization": {"name": {}}}
NestedNamePosting == <<
    LBrace, Key("title"), Colon, StrTok(<<"T">>), Comma,
    Key("hiringOrganization"), Colon,
        LBrace, Key("name"), Colon, LBrace, RBrace, RBrace,
    RBrace >>

Payloads == {NotJson, AcmePosting, NestedNamePosting}

Batches == UNION {[1..n -> Payloads] : n \in 0..MaxBatch}

----------------------------------------------------------------------------
(* The pipeline: extract, then transform, then load, run after run. *)

NoFn == <<>>

Init ==
    /\ pc = "idle"
    /\ run = 0
    /\ context_data = <<>>
    /\ t_index = 0
    /\ transformed_data = <<>>
    /\ staging = <<>>
    /\ l_index = 0
    /\ l_stmt = 1
    /\ connection = "none"
    /\ db = EmptyStore
    /\ txn = EmptyStore
    /\ last_insert_rowid = 0
    /\ log = <<>>
    /\ commits = 0
    /\ fn_in = NoFn
    /\ fn_out = NoFn

\* extract(): the context column of source/jobs.csv as a list.  A run
\* starts when the previous one has ended, by completing or by failing.
extract ==
    /\ pc \in {"idle", "done", "transform_failed", "load_failed"}
    /\ run < MaxRuns
    /\ run' = run + 1
    /\ \E batch \in Batches : context_data' = batch
    /\ pc' = "transform"
    /\ t_index' = 0
    /\ transformed_data' = <<>>
    /\ l_index' = 0
    /\ l_stmt' = 1
    /\ connection' = "none"
    /\ txn' = db
    /\ last_insert_rowid' = 0
    /\ log' = <<>>
    /\ commits' = 0
    /\ UNCHANGED <<staging, db, fn_in, fn_out>>

\* One iteration of the loop of transform.
transform_step ==
    /\ pc = "transform"
    /\ t_index < Len(context_data)
    /\ LET job_data == json_loads(context_data[t_index + 1])
           item == IF IsRaise(job_data) THEN job_data ELSE transform_item(job_data)
       IN  IF IsRaise(item)
           THEN /\ pc' = "transform_failed"
                /\ UNCHANGED <<t_index, transformed_data, staging>>
           ELSE /\ transformed_data' = append(transformed_data, item.rec)
                /\ staging' = save_transformed_data(staging, item.rec, t_index)
                /\ t_index' = t_index + 1
                /\ pc' = pc
    /\ UNCHANGED <<run, context_data, l_index, l_stmt, connection, db, txn,
                   last_insert_rowid, log, commits, fn_in, fn_out>>

\* return transformed_data, and the first three statements of load: the
\* hook, its connection and the cursor.
load_connect ==
    /\ pc = "transform"
    /\ t_index = Len(context_data)
    /\ pc' = "load"
    /\ connection' = "open"
    /\ txn' = db
    /\ last_insert_rowid' = 0
    /\ l_index' = 0
    /\ l_stmt' = 1
    /\ UNCHANGED <<run, context_data, t_index, transformed_data, staging, db,
                   log, commits, fn_in, fn_out>>

\* One cursor.execute of the loop body.  A parameter that sqlite3 cannot
\* bind raises before the statement runs; nothing catches it, so load ends
\* there, without reaching connection.commit() or connection.close().
load_execute ==
    /\ pc = "load"
    /\ ~LoopDone(l_index, Len(transformed_data))
    /\ l_index < Len(transformed_data)
    /\ LET tb == InsertOrder[l_stmt]
           params == transformed_data[l_index + 1][tb]
           working == Insert(txn, tb, params, last_insert_rowid, run, l_index)
       IN  IF Bindable(params)
           THEN /\ txn' = working
                /\ db' = AfterExecute(db, working)
                /\ last_insert_rowid' = NextRowid(txn, tb)
                /\ log' = Append(log, <<tb, l_index>>)
                /\ IF l_stmt = Len(InsertOrder)
                   THEN l_stmt' = 1 /\ l_index' = l_index + 1
                   ELSE l_stmt' = l_stmt + 1 /\ l_index' = l_index
                /\ pc' = pc
           ELSE /\ pc' = "load_failed"
                /\ db' = AfterError(db, txn)
                /\ txn' = db'
                /\ UNCHANGED <<last_insert_rowid, log, l_stmt, l_index>>
    /\ UNCHANGED <<run, context_data, t_index, transformed_data, staging,
                   connection, commits, fn_in, fn_out>>

\* The store refuses a statement or the commit (the file is locked, the
\* disk is full): the exception leaves load in the same way.
load_store_error ==
    /\ pc = "load"
    /\ pc' = "load_failed"
    /\ db' = AfterError(db, txn)
    /\ txn' = db'
    /\ UNCHANGED <<run, context_data, t_index, transformed_data, staging,
                   l_index, l_stmt, connection, last_insert_rowid, log,
                   commits, fn_in, fn_out>>

\* connection.commit(), after the loop.
load_commit ==
    /\ pc = "load"
    /\ LoopDone(l_index, Len(transformed_data))
    /\ db' = txn
    /\ commits' = commits + 1
    /\ pc' = "load_close"
    /\ UNCHANGED <<run, context_data, t_index, transformed_data, staging,
                   l_index, l_stmt, connection, txn, last_insert_rowid, log,
                   fn_in, fn_out>>

\* connection.close()
load_close ==
    /\ pc = "load_close"
    /\ connection' = "closed"
    /\ pc' = "done"
    /\ UNCHANGED <<run, context_data, t_index, transformed_data, staging,
                   l_index, l_stmt, db, txn, last_insert_rowid, log, commits,
                   fn_in, fn_out>>

Next ==
    \/ extract
    \/ transform_step
    \/ load_connect
    \/ load_execute
    \/ load_store_error
    \/ load_commit
    \/ load_close

Spec == Init /\ [][Next]_vars

----------------------------------------------------------------------------
(* clean_description applied on its own, once and then to its own result.  *)

Alphabet == {"<", ">", "b", "\n"}

Descriptions == UNION {[1..n -> Alphabet] : n \in 0..MaxLen}

PipelineIdle ==
    /\ run = 0
    /\ context_data = <<>>
    /\ t_index = 0
    /\ transformed_data = <<>>
    /\ staging = <<>>
    /\ l_index = 0
    /\ l_stmt = 1
    /\ connection = "none"
    /\ db = EmptyStore
    /\ txn = EmptyStore
    /\ last_insert_rowid = 0
    /\ log = <<>>
    /\ commits = 0

CleanInit ==
    /\ pc = "clean"
    /\ PipelineIdle
    /\ fn_in \in {Str(s) : s \in Descriptions}
    /\ fn_out = <<>>

clean_apply ==
    /\ pc = "clean"
    /\ Len(fn_out) < 2
    /\ fn_out' = Append(fn_out, clean_description(IF fn_out = <<>> THEN fn_in
                                                  ELSE fn_out[Len(fn_out)]))
    /\ UNCHANGED <<fn_in>>
    /\ UNCHANGED pipelineVars

CleanNext == clean_apply

SpecClean == CleanInit /\ [][CleanNext]_vars

----------------------------------------------------------------------------
(* The dict literal of transform applied to one parsed posting on its own. *)

\* The dictionaries with the key k bound to one of vals, or without it.
Opt(k, vals) == {<<>>} \cup {k :> v : v \in vals}

Both(A, B) == {a @@ b : a \in A, b \in B}

T(c) == Str(<<c>>)

Organizations ==
    {Null, EmptyDict, Obj("name" :> T("A") @@ "sameAs" :> T("a")), Obj("name" :> T("A"))}

Educations == {EmptyDict, Obj("credentialCategory" :> T("c"))}

Experiences == {Null, Obj("monthsOfExperience" :> Num(<<"6">>))}

Salaries == {T("s"), EmptyDict, Obj("currency" :> T("U") @@ "unit" :> T("Y"))}

Addresses == {Null, EmptyDict, Obj("addressCountry" :> T("F") @@ "postalCode" :> T("7"))}

JobLocations ==
    {Null, EmptyDict, Obj("latitude" :> Num(<<"4">>))}
        \cup {Obj("address" :> a) : a \in Addresses}
        \cup {Obj("address" :> a @@ "longitude" :> Num(<<"2">>)) : a \in Addresses}

PostingDescriptions == {Null, T("S"), Str(<<"<", "b", ">", "S">>)}

Postings ==
    {Null} \cup
    {Obj(o) : o \in
        Both(Opt("title", {T("D")}),
        Both(Opt("description", PostingDescriptions),
        Both(Opt("hiringOrganization", Organizations),
        Both(Opt("educationRequirements", Educations),
        Both(Opt("experienceRequirements", Experiences),
        Both(Opt("salary", Salaries),
             Opt("jobLocation", JobLocations)))))))}

ItemInit ==
    /\ pc = "item"
    /\ PipelineIdle
    /\ fn_in \in Postings
    /\ fn_out = <<>>

item_apply ==
    /\ pc = "item"
    /\ fn_out = <<>>
    /\ fn_out' = <<transform_item(fn_in)>>
    /\ UNCHANGED <<fn_in>>
    /\ UNCHANGED pipelineVars

ItemNext == item_apply

SpecItem == ItemInit /\ [][ItemNext]_vars

----------------------------------------------------------------------------
(* Properties. *)

Dependents == Tables \ {"job"}

\* The job row that load inserted for record index of run r.
JobRowsOf(store, r, index) ==
    {j \in store.rows["job"] : j.run = r /\ j.index = index}

\* C1: every dependent row, in the open transaction and in the committed
\* file, carries as job_id the id generated for the job row of its own
\* record.
DependentsReferenceOwnJob ==
    \A store \in {db, txn} : \A tb \in Dependents : \A r \in store.rows[tb] :
        /\ JobRowsOf(store, r.run, r.index) # {}
        /\ \A j \in JobRowsOf(store, r.run, r.index) : r.job_id = j.id

\* Two records of one run and a second run are committed, so that ids of
\* adjacent records and of different runs are at stake.
WitnessTwoRecordsLinked ==
    /\ pc = "done"
    /\ run = 2
    /\ \E r \in db.rows["location"] : r.run = 2 /\ r.index = 1 /\ r.job_id >= 3
    /\ \E r \in db.rows["education"] : r.run = 2 /\ r.index = 0

\* C2: when load has completed on n records it has added n job rows; every
\* job row of the file has exactly one row in each dependent table with its
\* id as job_id, and no dependent row names a job row that does not exist.
RoundTripCount ==
    /\ pc = "done" =>
          /\ Cardinality({j \in db.rows["job"] : j.run = run}) = Len(context_data)
          /\ Len(transformed_data) = Len(context_data)
    /\ \A j \in db.rows["job"] : \A tb \in Dependents :
          Cardinality({r \in db.rows[tb] : r.job_id = j.id}) = 1
    /\ \A tb \in Dependents : \A r \in db.rows[tb] :
          \E j \in db.rows["job"] : j.id = r.job_id

WitnessLoadCompletedTwo ==
    /\ pc = "done"
    /\ Len(context_data) = 2
    /\ Cardinality({j \in db.rows["job"] : j.run = run}) = 2

\* C3: load has closed its connection whenever it has ended, by returning
\* or by an exception of an INSERT or of the commit.
ConnectionClosedOnEveryExit ==
    pc \in {"done", "load_failed"} => connection = "closed"

----------------------------------------------------------------------------

\* Some key of the path is absent from the dictionary that should hold it.
RECURSIVE PathAbsent(_, _)
PathAbsent(d, path) ==
    /\ d.t = "obj"
    /\ \/ path[1] \notin DOMAIN d.o
       \/ Len(path) > 1 /\ PathAbsent(d.o[path[1]], Tail(path))

\* Every nested key of the path that is present holds a dictionary.
RECURSIVE PathOfDicts(_, _)
PathOfDicts(d, path) ==
    /\ d.t = "obj"
    /\ \/ Len(path) = 1
       \/ path[1] \notin DOMAIN d.o
       \/ PathOfDicts(d.o[path[1]], Tail(path))

\* A posting of the JobPosting shape: a dictionary whose nested objects are
\* dictionaries where present and whose description is a string if present.
ValidPosting(d) ==
    /\ d.t = "obj"
    /\ \A k \in LeafIds : PathOfDicts(d, Leaves[k].path)
    /\ "description" \in DOMAIN d.o => d.o["description"].t = "str"

\* C4: a leaf whose key, or a nested object on the way to it, is absent
\* resolves to the empty string and its lookup raises nothing, at every
\* depth; a posting of the JobPosting shape raises nothing at all.
AbsentResolvesToEmpty ==
    (pc = "item" /\ fn_out # <<>>) =>
        /\ \A k \in LeafIds :
              PathAbsent(fn_in, Leaves[k].path) =>
                 /\ fn_out[1].t = "raise" => fn_out[1].at # k
                 /\ fn_out[1].t = "item" =>
                       fn_out[1].rec[Leaves[k].sub][Leaves[k].field] = EmptyStr
        /\ ValidPosting(fn_in) => fn_out[1].t = "item"

\* jobLocation is present without its address, hiringOrganization is absent
\* altogether, and the item has been built.
WitnessAbsentAtDepth ==
    /\ pc = "item"
    /\ fn_out # <<>>
    /\ fn_out[1].t = "item"
    /\ fn_in.t = "obj"
    /\ "hiringOrganization" \notin DOMAIN fn_in.o
    /\ "jobLocation" \in DOMAIN fn_in.o
    /\ fn_in.o["jobLocation"].t = "obj"
    /\ DOMAIN fn_in.o["jobLocation"].o = {"latitude"}
    /\ fn_out[1].rec["location"]["country"] = EmptyStr
    /\ fn_out[1].rec["company"]["name"] = EmptyStr
    /\ fn_out[1].rec["location"]["latitude"] # EmptyStr

----------------------------------------------------------------------------

ValidPayload(data) ==
    LET v == json_loads(data) IN ~IsRaise(v) /\ ValidPosting(v)

TransformReturned == pc \in {"load", "load_close", "done", "load_failed"}

\* C5: transform returns one record per payload, record i built from
\* payload i and staged under index i, each with the six sub-records; and it
\* fails only if some payload is not a valid posting.
OneRecordPerPayloadInOrder ==
    /\ TransformReturned =>
          /\ Len(transformed_data) = Len(context_data)
          /\ \A i \in 1..Len(context_data) :
                LET item == transform_item(json_loads(context_data[i])) IN
                /\ item.t = "item"
                /\ transformed_data[i] = item.rec
                /\ (i - 1) \in DOMAIN staging
                /\ staging[i - 1] = item.rec
                /\ DOMAIN transformed_data[i] = SubRecords
    /\ pc = "transform_failed" =>
          \E i \in 1..Len(context_data) : ~ValidPayload(context_data[i])

WitnessTwoDistinctPayloads ==
    /\ TransformReturned
    /\ Len(context_data) = 2
    /\ context_data[1] = AcmePosting
    /\ context_data[2] = NestedNamePosting

\* The positions of the list that hold the text "not json".
BadPositions == {i \in 1..Len(context_data) : context_data[i] = NotJson}

\* C6: while the list holds a payload that is not JSON, transform never
\* gets past it (it is at it, or has failed), load is not started, and no
\* row of this run is in any table.
MalformedAborts ==
    BadPositions # {} =>
        /\ pc \in {"transform", "transform_failed"}
        /\ t_index < Min(BadPositions)
        /\ Len(transformed_data) = t_index
        /\ connection = "none"
        /\ \A store \in {db, txn} : \A tb \in Tables :
              \A r \in store.rows[tb] : r.run # run

\* A valid payload was transformed, then the payload that is not JSON made
\* transform fail.
WitnessFailedAtSecond ==
    /\ pc = "transform_failed"
    /\ Len(context_data) = 2
    /\ context_data[2] = NotJson
    /\ t_index = 1

----------------------------------------------------------------------------

\* C7: a second application of clean_description changes nothing.
CleanIdempotent ==
    (pc = "clean" /\ Len(fn_out) = 2) => fn_out[2] = fn_out[1]

\* A tag was removed and the result still holds a '<' with a '>' after it.
WitnessBracketsRemain ==
    /\ pc = "clean"
    /\ Len(fn_out) = 2
    /\ fn_out[1] # fn_in
    /\ \E i, j \in 1..Len(fn_out[1].v) :
          i < j /\ fn_out[1].v[i] = "<" /\ fn_out[1].v[j] = ">"

----------------------------------------------------------------------------

\* C8: the k-th INSERT of a run is the ((k-1) mod 6)-th of job, company,
\* education, experience, salary, location for record (k-1) div 6: the five
\* dependents of a record come before the job row of the next.
InsertsInRecordOrder ==
    \A k \in 1..Len(log) :
        log[k] = << <<"job", "company", "education", "experience", "salary",
                      "location">>[((k - 1) % 6) + 1],
                    (k - 1) \div 6 >>

WitnessSecondRecordInserted == Len(log) = 12

\* The records of the current run that have a committed row in tb.
RunRows(tb) == {r.index : r \in {x \in db.rows[tb] : x.run = run}}

\* C9: a run commits at most once and only after all its INSERTs; the file
\* holds, in each of the six tables, the rows of all its records or of none.
CommitOnceAllOrNothing ==
    /\ commits <= 1
    /\ commits = 1 => Len(log) = 6 * Len(transformed_data)
    /\ \/ \A tb \in Tables : RunRows(tb) = {}
       \/ /\ commits = 1
          /\ \A tb \in Tables : RunRows(tb) = 0..(Len(transformed_data) - 1)

\* load failed inside its second record and nothing of the run is committed.
WitnessFailedMidBatch ==
    /\ pc = "load_failed"
    /\ Len(log) > 6
    /\ Len(log) < 12
    /\ RunRows("job") = {}

\* C10: the six tables hold the same number of committed rows under the
\* same ids, and each dependent row gets the id of its record's job row.
TablesInLockstep ==
    /\ \A tb \in Tables :
          /\ {r.id : r \in db.rows[tb]} = {r.id : r \in db.rows["job"]}
          /\ Cardinality(db.rows[tb]) = Cardinality(db.rows["job"])
    /\ \A tb \in Dependents : \A r \in txn.rows[tb] :
          \E j \in JobRowsOf(txn, r.run, r.index) : j.id = r.id

\* The first run transformed two records and committed none of them (its
\* load failed); the second run completed on one record.
WitnessRunAfterFailedRun ==
    /\ pc = "done"
    /\ run = 2
    /\ 1 \in DOMAIN staging
    /\ db.rows["job"] # {}
    /\ \A j \in db.rows["job"] : j.run = 2
    /\ Len(context_data) = 1

====
